---- MODULE Spec2Model ----
(***************************************************************************)
(* A model of the Daemon of src/src/daemon.ts: the process registry, the   *)
(* command chain executor (start), killAll, the exit monitor, the reload   *)
(* orchestrator, the shutdown signal listener and the event generator      *)
(* (iterate).                                                              *)
(*                                                                         *)
(* JavaScript runs one continuation at a time, so every action below is    *)
(* one run of supervisor code from the point where it is resumed to the    *)
(* point where it next suspends (an await on a process status, on the      *)
(* change feed, on a signal, or a yield to the consumer of the events).    *)
(* The environment contributes the outcomes of the child processes, the    *)
(* batches of the change feed, the termination signal, the host platform   *)
(* and the process ids.  A process id stays taken until the status of its  *)
(* process has been delivered to the continuation that awaits it.          *)
(***************************************************************************)
EXTENDS Integers, Sequences, FiniteSets, TLC

\* ---------------------------------------------------------------- bounds
MaxCmds == 2        \* longest chain the command source returns
MaxBatches == 2     \* number of batches the change feed delivers

VARIABLES
    windows,      \* Deno.build.os === "windows"
    nCmds,        \* commands.length, the chain runner.build(script) returns
    watch,        \* options.watch of the last command of the chain
    processes,    \* #processes: pid -> process handle (run and command index)
    procs,        \* the child processes: those of the latest chain execution
                  \* and the earlier ones whose status is still awaited
    events,       \* the DenonEvents yielded so far
    pc,           \* where the generator of iterate() is suspended
    i,            \* the loop index of start() while it awaits a status
    run,          \* number of calls of start() so far
    phase,        \* the caller of the start() in progress
    listener,     \* the signal listeners of onExit() are installed
    alive,        \* Deno.exit has not been called
    fed,          \* number of batches the for-await loop has taken so far
    watchE,       \* the batch taken last (the loop variable)
    kills,        \* number of killAll() calls, by caller
    lastKill      \* size of the registry before and after the latest killAll()

vars == <<windows, nCmds, watch, processes, procs, events, pc, i, run, phase,
          listener, alive, fed, watchE, kills, lastKill>>

Undefined == "undefined"

\* ------------------------------------------------------------ data values
\* A change record carries the list of its classifications.
FileActions == {"access", "modify"}
ChangeRecords == {[type |-> t] : t \in (SUBSET FileActions) \ {{}}}
AccessOnly == [type |-> {"access"}]
ChangeBatches ==
    {<<>>} \cup {<<r>> : r \in ChangeRecords}
           \cup {<<AccessOnly, r>> : r \in ChangeRecords}
           \cup {<<r, AccessOnly>> : r \in ChangeRecords}
NoBatch == <<>>

StartEvent == [type |-> "start"]
ExitEvent == [type |-> "exit"]
\* A reload event carries its batch, named here by its position in the feed.
ReloadEvent(n) == [type |-> "reload", change |-> n]

EmptyRegistry == [p \in {} |-> 0]
\* `return { watch: true }` for the empty chain.
DefaultOptionsWatching == [watch |-> "true"]

DefaultOptions == [watch |-> Undefined]
CommandOptions == [watch |-> watch]
\* JavaScript values are modelled by their names; only true is truthy here.
Truthy(v) == v = "true"

\* ------------------------------------------------------------- processes
PIDs == 1 .. (MaxBatches + 2)
Held(ps) == {p.pid : p \in {q \in ps : q.st = "running" \/ q.mon = "pending"}}
\* The host hands out the lowest id that is not taken.
FreePids(ps) == LET free == PIDs \ Held(ps) IN {x \in free : \A y \in free : x <= y}

Handle(p) == [run |-> p.run, cmd |-> p.cmd]
ProcOf(ps, h) == CHOOSE p \in ps : Handle(p) = h

\* command.exe(): a new child process, running.
Exe(pid, r, c) ==
    [run |-> r, cmd |-> c, pid |-> pid, st |-> "running", req |-> 0,
     mon |-> "none", log |-> "none"]

\* `i === commands.length`, one too far: no command is ever the last.
IsLastOffByOne(c, n) == c = n

IsLast(c, n) == c = n - 1

Register(reg, pid, h) ==
    [p \in DOMAIN reg \cup {pid} |-> IF p = pid THEN h ELSE reg[p]]

Unregister(reg, pid) == [p \in DOMAIN reg \ {pid} |-> reg[p]]

\* A killAll() loop that issues no termination request.
TerminateNothing(p, win) == p

\* p.close() on Windows invalidates the handle, so its status cannot be
\* retrieved; Deno.kill(pid, SIGKILL) ends the process without success.
Terminate(p, win) ==
    [p EXCEPT !.req = @ + 1,
              !.st = IF @ = "running"
                     THEN (IF win THEN "error" ELSE "failure")
                     ELSE @]

\* killAll() without `this.#processes = {}`.
KillAllWithoutClear(reg, ps, win) ==
    LET hit == {reg[id] : id \in DOMAIN reg}
    IN  [processes |-> reg,
         procs |-> {IF Handle(p) \in hit THEN Terminate(p, win) ELSE p : p \in ps}]

\* killAll() that leaves to their monitors the processes already ended.
KillAllSkippingEnded(reg, ps, win) ==
    LET live == {id \in DOMAIN reg : ProcOf(ps, reg[id]).st = "running"}
        hit == {reg[id] : id \in live}
    IN  [processes |-> [id \in DOMAIN reg \ live |-> reg[id]],
         procs |-> {IF Handle(p) \in hit THEN Terminate(p, win) ELSE p : p \in ps}]

KillAll(reg, ps, win) ==
    LET pcopy == reg
        hit == {pcopy[id] : id \in DOMAIN pcopy}
    IN  [processes |-> EmptyRegistry,
         procs |-> {IF Handle(p) \in hit THEN Terminate(p, win) ELSE p : p \in ps}]

\* A process is of no further concern once its status has been delivered.
Finished(p) == p.st # "running" /\ p.mon # "pending"

\* ---------------------------------------------------------- exit monitor
StatusOf(p) == IF p.st = "error" THEN Undefined ELSE p.st

Success(s) == s = "success"

\* A lookup that asks whether anything is registered, whatever its pid.
PresentWhateverPid(reg, pid) == DOMAIN reg # {}

Present(reg, pid) == pid \in DOMAIN reg

StatusLog(s, options) ==
    IF Success(s)
    THEN (IF Truthy(options.watch) THEN "clean exit - waiting for changes before restart"
          ELSE "clean exit - denon is exiting ...")
    ELSE (IF Truthy(options.watch)
          THEN "app crashed - waiting for file changes before starting ..."
          ELSE "app crashed - denon is exiting ...")

\* A monitor that takes a failed status retrieval for a kill, without lookup.
MonitorResumeFailureMeansKilled(reg, p, options) ==
    LET s == StatusOf(p)
    IN  IF s # Undefined /\ Present(reg, p.pid)
        THEN [processes |-> Unregister(reg, p.pid),
              proc |-> [p EXCEPT !.mon = "exited on its own",
                                 !.log = StatusLog(s, options)]]
        ELSE [processes |-> reg,
              proc |-> [p EXCEPT !.mon = "was killed"]]

\* A monitor that deletes whatever is registered, not the entry of its pid.
MonitorResumeDropsAnyEntry(reg, p, options) ==
    LET s == StatusOf(p)
    IN  IF DOMAIN reg # {}
        THEN [processes |-> EmptyRegistry,
              proc |-> [p EXCEPT !.mon = "exited on its own",
                                 !.log = IF s # Undefined THEN StatusLog(s, options)
                                         ELSE "none"]]
        ELSE [processes |-> reg,
              proc |-> [p EXCEPT !.mon = "was killed"]]

\* The continuation of monitor() after `await process.status()`.
MonitorResume(reg, p, options) ==
    LET s == StatusOf(p)
    IN  IF Present(reg, p.pid)
        THEN [processes |-> Unregister(reg, p.pid),
              proc |-> [p EXCEPT !.mon = "exited on its own",
                                 !.log = IF s # Undefined THEN StatusLog(s, options)
                                         ELSE "none"]]
        ELSE [processes |-> reg,
              proc |-> [p EXCEPT !.mon = "was killed"]]

\* ------------------------------------------------------- event generator
\* every() in place of some().
QualifiesEvery(batch) == \A k \in DOMAIN batch : "modify" \in batch[k].type

Qualifies(batch) == \E k \in DOMAIN batch : "modify" \in batch[k].type

\* iterate() entering the watch loop whatever the options say.
WatchRequestedAlways(options) == TRUE

WatchRequested(options) == Truthy(options.watch)

\* onExit() without its platform test.
ListensForSignalsAnywhere(win) == TRUE

ListensForSignals(win) == ~win

TypeOK ==
    /\ windows \in BOOLEAN
    /\ nCmds \in 0 .. MaxCmds
    /\ watch \in {"true", "false", Undefined}
    /\ DOMAIN processes \subseteq PIDs
    /\ \A p \in DOMAIN processes : \E q \in procs : Handle(q) = processes[p]
    /\ pc \in {"init", "yield start", "setup", "watch", "yield reload",
               "yield exit", "done", "threw"}
    /\ i \in 0 .. MaxCmds + 1
    /\ run \in 0 .. (MaxBatches + 1)
    /\ phase \in {"none", "iterate", "reload"}
    /\ listener \in BOOLEAN
    /\ alive \in BOOLEAN
    /\ fed \in 0 .. MaxBatches
    /\ watchE \in ChangeBatches

Init ==
    /\ windows \in BOOLEAN
    /\ nCmds \in 0 .. MaxCmds
    /\ watch \in (IF nCmds = 0 THEN {Undefined} ELSE {"true", "false"})
    /\ processes = EmptyRegistry
    /\ procs = {}
    /\ events = <<>>
    /\ pc = "init"
    /\ i = 0
    /\ run = 0
    /\ phase = "none"
    /\ listener = FALSE
    /\ alive = TRUE
    /\ fed = 0
    /\ watchE = NoBatch
    /\ kills = [reload |-> 0, signal |-> 0]
    /\ lastKill = [before |-> 0, after |-> 0]

\* iterate() with its `yield exit` ahead of the watch loop.
ReturnedExitFirst(caller, options) ==
    IF caller = "reload"
    THEN /\ pc' = "watch"
         /\ UNCHANGED <<events, listener>>
    ELSE /\ listener' = ListensForSignals(windows)
         /\ events' = Append(events, ExitEvent)
         /\ pc' = IF WatchRequested(options) THEN "watch" ELSE "yield exit"

\* iterate() from the return of its `await this.start()` to its next
\* suspension; reload() returns to the for-await loop of iterate().
Returned(caller, options) ==
    IF caller = "reload"
    THEN /\ pc' = "watch"
         /\ UNCHANGED <<events, listener>>
    ELSE /\ listener' = ListensForSignals(windows)
         /\ IF WatchRequested(options)
            THEN /\ pc' = "watch"
                 /\ UNCHANGED events
            ELSE /\ events' = Append(events, ExitEvent)
                 /\ pc' = "yield exit"

\* The loop of start() from index c up to its next await or its return:
\* the last command is registered, monitored and left running; any other
\* one is awaited; past the end of the chain the default options return.
StartLoop(c, reg, ps, caller) ==
    IF c < nCmds
    THEN \E pid \in FreePids(ps) :
            LET process == Exe(pid, run', c)
            IN  /\ i' = c
                /\ IF IsLast(c, nCmds)
                   THEN /\ processes' = Register(reg, pid, Handle(process))
                        /\ procs' = ps \cup {[process EXCEPT !.mon = "pending"]}
                        /\ phase' = "none"
                        /\ Returned(caller, CommandOptions)
                   ELSE /\ processes' = reg
                        /\ procs' = ps \cup {process}
                        /\ phase' = caller
                        /\ pc' = "setup"
                        /\ UNCHANGED <<events, listener>>
    ELSE /\ i' = c
         /\ processes' = reg
         /\ procs' = ps
         /\ phase' = "none"
         /\ Returned(caller, DefaultOptions)

\* A restart of the main command alone, without the commands before it.
StartMainOnly(reg, ps, caller) ==
    /\ run' = run + 1
    /\ StartLoop(IF nCmds = 0 THEN 0 ELSE nCmds - 1, reg,
                 {p \in ps : ~Finished(p)}, caller)

\* start() from its first line.  Processes whose status has been delivered
\* are of no further concern and leave the model here.
Start(reg, ps, caller) ==
    /\ run' = run + 1
    /\ StartLoop(0, reg, {p \in ps : ~Finished(p)}, caller)

\* The consumer's first next(): the generator runs to `yield start`.
Begin ==
    /\ alive /\ pc = "init"
    /\ events' = Append(events, StartEvent)
    /\ pc' = "yield start"
    /\ UNCHANGED <<windows, nCmds, watch, processes, procs, i, run, phase,
                   listener, alive, fed, watchE, kills, lastKill>>

\* next() after `yield start`: the first chain execution.
ResumeStart ==
    /\ alive /\ pc = "yield start"
    /\ Start(processes, procs, "iterate")
    /\ UNCHANGED <<windows, nCmds, watch, alive, fed, watchE, kills, lastKill>>

\* An await that also gives up on a status without success.
RejectsUnlessSuccess(outcome) == outcome # "success"

\* `await process.status()` throws only when the retrieval fails; the
\* success flag of a retrieved status is not looked at.
Rejects(outcome) == outcome = "error"

\* The status awaited by start() is delivered (or its retrieval fails).
SetupStatus(outcome) ==
    /\ alive /\ pc = "setup"
    /\ LET p == ProcOf(procs, [run |-> run, cmd |-> i])
           ps == (procs \ {p}) \cup {[p EXCEPT !.st = outcome]}
       IN  /\ run' = run
           /\ IF Rejects(outcome)
              THEN /\ procs' = ps
                   /\ pc' = "threw"
                   /\ phase' = "none"
                   /\ UNCHANGED <<processes, i, events, listener>>
              ELSE StartLoop(i + 1, processes, ps, phase)
    /\ UNCHANGED <<windows, nCmds, watch, alive, fed, watchE, kills, lastKill>>

\* A loop that does not await reload(): it goes back to the feed while the
\* chain execution of the reload is still awaiting a status.
TakesBatchesUnawaited(at) == at \in {"watch", "setup"}

\* The loop is suspended on the feed: `await this.reload()` has returned.
TakesBatches(at) == at = "watch"

\* The for-await loop takes the next batch of the feed.
Batch(b) ==
    /\ alive /\ TakesBatches(pc)
    /\ fed < MaxBatches
    /\ fed' = fed + 1
    /\ watchE' = b
    /\ IF Qualifies(b)
       THEN /\ events' = Append(events, ReloadEvent(fed'))
            /\ pc' = "yield reload"
       ELSE UNCHANGED <<events, pc>>
    /\ UNCHANGED <<windows, nCmds, watch, processes, procs, i, run, phase,
                   listener, alive, kills, lastKill>>

\* The feed ends: the loop falls through to `yield exit`.
FeedEnd ==
    /\ alive /\ pc = "watch"
    /\ events' = Append(events, ExitEvent)
    /\ pc' = "yield exit"
    /\ UNCHANGED <<windows, nCmds, watch, processes, procs, i, run, phase,
                   listener, alive, fed, watchE, kills, lastKill>>

\* next() after `yield reload`: reload(), that is killAll() and start().
ResumeReload ==
    /\ alive /\ pc = "yield reload"
    /\ LET killed == KillAll(processes, procs, windows)
       IN  /\ kills' = [kills EXCEPT !.reload = @ + 1]
           /\ lastKill' = [before |-> Cardinality(DOMAIN processes),
                           after |-> Cardinality(DOMAIN killed.processes)]
           /\ Start(killed.processes, killed.procs, "reload")
    /\ watchE' = NoBatch      \* the loop body makes no further use of it
    /\ UNCHANGED <<windows, nCmds, watch, alive, fed>>

\* next() after `yield exit`: the generator returns.
ResumeExit ==
    /\ alive /\ pc = "yield exit"
    /\ pc' = "done"
    /\ UNCHANGED <<windows, nCmds, watch, processes, procs, events, i, run,
                   phase, listener, alive, fed, watchE, kills, lastKill>>

\* A main process ends by itself (or its status becomes irretrievable).
MainExit(p, outcome) ==
    /\ alive
    /\ p.mon = "pending" /\ p.st = "running"
    /\ procs' = (procs \ {p}) \cup {[p EXCEPT !.st = outcome]}
    /\ UNCHANGED <<windows, nCmds, watch, processes, events, pc, i, run, phase,
                   listener, alive, fed, watchE, kills, lastKill>>

\* monitor() resumes after its await.
Monitor(p) ==
    /\ alive
    /\ p.mon = "pending" /\ p.st # "running"
    /\ LET m == MonitorResume(processes, p, CommandOptions)
       IN  /\ processes' = m.processes
           /\ procs' = (procs \ {p}) \cup {m.proc}
    /\ UNCHANGED <<windows, nCmds, watch, events, pc, i, run, phase,
                   listener, alive, fed, watchE, kills, lastKill>>

\* One of the awaited signals arrives: killAll(), then Deno.exit(0).
Signal ==
    /\ alive /\ listener
    /\ LET killed == KillAll(processes, procs, windows)
       IN  /\ kills' = [kills EXCEPT !.signal = @ + 1]
           /\ lastKill' = [before |-> Cardinality(DOMAIN processes),
                           after |-> Cardinality(DOMAIN killed.processes)]
           /\ processes' = killed.processes
           /\ procs' = killed.procs
    /\ alive' = FALSE
    /\ UNCHANGED <<windows, nCmds, watch, events, pc, i, run, phase, listener,
                   fed, watchE>>

Outcomes == {"success", "failure", "error"}

Next ==
    \/ Begin
    \/ ResumeStart
    \/ \E o \in Outcomes : SetupStatus(o)
    \/ \E b \in ChangeBatches : Batch(b)
    \/ FeedEnd
    \/ ResumeReload
    \/ ResumeExit
    \/ \E p \in procs, o \in Outcomes : MainExit(p, o)
    \/ \E p \in procs : Monitor(p)
    \/ Signal

Spec == Init /\ [][Next]_vars

\* ------------------------------------------------------------ properties
Monitored(ps) == {p \in ps : p.mon # "none"}
Registered(reg, p) == \E id \in DOMAIN reg : reg[id] = Handle(p)
Classified(p) == p.mon \in {"exited on its own", "was killed"}
Size(reg) == Cardinality(DOMAIN reg)

\* C1: whenever an exit monitor completes, it classifies its process as
\* exactly one of "exited on its own" and "was killed"; it is "exited on its
\* own" exactly when no killAll() had taken the process and the monitor itself
\* removes the entry, and "was killed" exactly when a killAll() had already
\* removed it (and then the monitor leaves the registry as it is).
C1_ExactlyOneClassification ==
    [][\A p \in Monitored(procs), q \in Monitored(procs') :
          (Handle(p) = Handle(q) /\ p.mon = "pending" /\ q.mon # "pending") =>
              /\ Classified(q)
              /\ (q.mon = "exited on its own") <=>
                     (p.req = 0 /\ Registered(processes, p)
                                /\ ~Registered(processes', p))
              /\ (q.mon = "was killed") <=>
                     (p.req > 0 /\ ~Registered(processes, p)
                                /\ processes' = processes)]_vars

\* The race: the process ended by itself, with success, and a killAll() took
\* it before its monitor resumed.
C1_Witness ==
    \E p \in Monitored(procs) :
        p.st = "success" /\ p.req > 0 /\ p.mon = "was killed"

\* C2: after every killAll(), from reload or from a signal, the registry is
\* empty, whatever it held before.
C2_EmptyAfterKillAll == lastKill.after = 0

C2_Witness ==
    /\ kills.reload > 0 /\ kills.signal > 0
    /\ lastKill.before = 1

\* C3: the registry never holds more than one entry, and an entry is always
\* the process of the last command of the chain.
C3_AtMostOneMain ==
    /\ Size(processes) <= 1
    /\ \A id \in DOMAIN processes : processes[id].cmd = nCmds - 1

C3_Witness ==
    /\ nCmds >= 2 /\ run >= 2
    /\ Size(processes) = 1
    /\ \E p \in procs : p.run < run /\ p.mon = "pending"

\* C4: in the chain execution in progress or last completed, a command is
\* spawned only when every command before it has yielded its status; the
\* execution has returned exactly when its last command has been spawned,
\* all N-1 others having completed, and it returns whatever the state of
\* that last process; while it awaits, the awaited command is the only one
\* of the chain that has not completed.
ThisRun == {p \in procs : p.run = run}
Completed(p) == p.st \in {"success", "failure"}
ChainAwaits == pc = "setup"
ChainReturned == run >= 1 /\ pc \notin {"setup", "threw"}
C4_SequentialChain ==
    /\ \A p \in ThisRun : \A c \in 0 .. p.cmd - 1 :
           \E q \in ThisRun : q.cmd = c /\ Completed(q) /\ q.mon = "none"
    /\ \A p, q \in ThisRun : p.cmd = q.cmd => p = q
    /\ ChainAwaits =>
           /\ i < nCmds - 1
           /\ \E p \in ThisRun : p.cmd = i /\ p.st = "running"
           /\ \A p \in ThisRun : p.cmd <= i
    /\ (ChainReturned /\ nCmds >= 1) =>
           /\ \E p \in ThisRun : p.cmd = nCmds - 1 /\ p.mon # "none"
           /\ Cardinality({p \in ThisRun : p.cmd < nCmds - 1 /\ Completed(p)})
                  = nCmds - 1
    /\ \A p \in ThisRun : p.cmd >= nCmds - 1 => ChainReturned

C4_Witness ==
    /\ nCmds = MaxCmds /\ run = 2 /\ pc = "watch"
    /\ \E p \in ThisRun : p.cmd = nCmds - 1 /\ p.st = "running"
    /\ \E p \in ThisRun : p.cmd = 0 /\ p.st = "failure"

\* C5: a consumed batch yields a reload event, carrying that batch, exactly
\* when one of its records is classified "modify", and otherwise changes
\* nothing but the loop's own position; reload() runs only on resuming from
\* the yield of such an event, so the reload events are as many as the
\* qualifying batches consumed, each emitted before the next batch is taken.
HasModify(b) == {k \in DOMAIN b : "modify" \in b[k].type} # {}
Reloads(evs) == {k \in DOMAIN evs : evs[k].type = "reload"}
C5_FilterLaw ==
    /\ [][fed' # fed =>
            /\ pc = "watch" /\ fed' = fed + 1
            /\ IF HasModify(watchE')
               THEN /\ events' = Append(events, ReloadEvent(fed'))
                    /\ pc' = "yield reload"
               ELSE /\ events' = events /\ pc' = "watch"
            /\ UNCHANGED <<processes, procs, run, kills>>]_vars
    /\ [][kills'.reload # kills.reload =>
            /\ pc = "yield reload"
            /\ events[Len(events)] = ReloadEvent(fed)
            /\ kills'.reload = kills.reload + 1
            /\ run' = run + 1]_vars
    /\ [](Cardinality(Reloads(events))
              = kills.reload + (IF pc = "yield reload" THEN 1 ELSE 0))
    /\ [](\A k \in Reloads(events) : events[k].change <= fed)

C5_Witness ==
    /\ fed = 2 /\ kills.reload = 1
    /\ Reloads(events) = {2} /\ events[2].change = 2

\* C6 as stated: once the first chain execution has returned options whose
\* watch is not set, the events are [start, exit] (exit is emitted on that
\* return), no batch is taken from the feed, and there is no reload, no
\* killAll() at all and no second chain execution.
WatchUnset == nCmds = 0 \/ ~Truthy(watch)
C6_NoKillAllAtAll ==
    (ChainReturned /\ WatchUnset) =>
        /\ events = <<StartEvent, ExitEvent>>
        /\ fed = 0 /\ run = 1
        /\ kills.reload = 0 /\ kills.signal = 0

\* C6 as amended: the same, except that the shutdown signal listener still
\* calls killAll() when a termination signal arrives; the generator itself
\* never calls killAll().
C6_TerminationLaw ==
    (ChainReturned /\ WatchUnset) =>
        /\ events = <<StartEvent, ExitEvent>>
        /\ pc \in {"yield exit", "done"}
        /\ fed = 0 /\ run = 1
        /\ kills.reload = 0
        /\ kills.signal = (IF alive THEN 0 ELSE 1)

\* The generator has finished while the main process, which will fail, is
\* still running.
C6_Witness ==
    /\ pc = "done" /\ nCmds >= 1 /\ watch = "false"
    /\ events = <<StartEvent, ExitEvent>>
    /\ \E p \in Monitored(procs) : p.st = "running"

\* C7: once the shutdown signal listener has handled a signal (killAll(),
\* then exit of the supervisor), no child process is still running.
C7_NoOrphans == ~alive => \A p \in procs : p.st # "running"

\* C8: the events are `start` first and once (emitted before anything is
\* spawned), then reload events only, then at most one `exit`, which is last.
C8_EventShape ==
    /\ events = <<>> => (run = 0 /\ procs = {})
    /\ \A k \in DOMAIN events :
          /\ events[k].type \in {"start", "reload", "exit"}
          /\ (events[k].type = "start") <=> (k = 1)
          /\ (events[k].type = "exit") => (k = Len(events))

C8_Witness ==
    /\ Len(events) = 4 /\ events[4] = ExitEvent
    /\ Reloads(events) = {2, 3}

C10_NothingSurfaces == pc # "threw"

\* C11: the registry is empty at construction, and holds no process handle
\* in any state in which `exit` has been emitted.
ExitEmitted == \E k \in DOMAIN events : events[k] = ExitEvent
C11_EmptyAtTeardown ==
    /\ pc = "init" => processes = EmptyRegistry
    /\ ExitEmitted => processes = EmptyRegistry

\* C12: reload() runs on resuming from the yield of the reload event of the
\* batch just taken; its killAll() precedes every spawn, so that the registry
\* then holds nothing of an earlier chain execution and the first process
\* spawned is that of the first command; every chain execution that has
\* returned has spawned all of its commands; and a batch is taken only when
\* the chain execution of the reload before it has returned.
NewProcs == {q \in procs' : \A p \in procs : Handle(p) # Handle(q)}
C12_ReloadOrdering ==
    /\ [][kills'.reload # kills.reload =>
            /\ pc = "yield reload"
            /\ events[Len(events)] = ReloadEvent(fed)
            /\ events' = events
            /\ lastKill'.after = 0
            /\ \A id \in DOMAIN processes' : processes'[id].run = run'
            /\ \A p \in procs : Registered(processes, p) =>
                   \E q \in procs' : Handle(q) = Handle(p) /\ q.req = p.req + 1
            /\ NewProcs = {q \in procs' : q.run = run' /\ q.cmd = 0}
            /\ \A q \in NewProcs : q.req = 0 /\ q.st = "running"]_vars
    /\ [](ChainReturned =>
            \A c \in 0 .. nCmds - 1 : \E p \in ThisRun : p.cmd = c)
    /\ [][fed' # fed =>
            /\ pc = "watch" /\ phase = "none"
            /\ kills.reload = Cardinality(Reloads(events))
            /\ run = kills.reload + 1]_vars

\* A second reload has re-run the setup command and restarted the main one.
C12_Witness ==
    /\ nCmds = 2 /\ run = 3 /\ kills.reload = 2 /\ pc = "watch"
    /\ \E p \in ThisRun : p.cmd = 0 /\ Completed(p)
    /\ \E p \in ThisRun : p.cmd = 1 /\ p.st = "running"

\* C13: when reload() returns for a chain that is not empty, the registry
\* holds exactly one entry, under the pid of the main process just spawned;
\* and the killAll() of that reload sent a termination request to the main
\* process that was registered, if any.
ReloadReturns ==
    /\ pc' = "watch"
    /\ \/ pc = "yield reload"
       \/ pc = "setup" /\ phase = "reload"
C13_AfterReload ==
    /\ [][(ReloadReturns /\ nCmds >= 1) =>
            /\ Size(processes') = 1
            /\ \E q \in NewProcs :
                   /\ q.run = run' /\ q.cmd = nCmds - 1 /\ q.mon = "pending"
                   /\ DOMAIN processes' = {q.pid}
                   /\ processes'[q.pid] = Handle(q)]_vars
    /\ [][pc = "yield reload" /\ pc' # pc =>
            \A p \in procs : Registered(processes, p) =>
                \E q \in procs' : Handle(q) = Handle(p) /\ q.req = 1]_vars

\* The reload of a two-command chain has returned; the previous main process,
\* killed while it ran, still awaits its monitor.
C13_Witness ==
    /\ nCmds = 2 /\ run = 2 /\ pc = "watch" /\ Size(processes) = 1
    /\ \E p \in Monitored(procs) :
           p.run = 1 /\ p.req = 1 /\ p.mon = "pending" /\ p.st = "failure"
    /\ \E q \in Monitored(procs) : q.run = 2 /\ Registered(processes, q)

\* C14: on a platform other than Windows the signal listener is installed
\* when the first chain execution has returned, and from then on a signal can
\* be handled whatever the generator is doing; handling it runs killAll() and
\* ends the supervisor: the registry is empty, and nothing is spawned, emitted
\* or changed afterwards.  On Windows no listener is installed and none ever
\* calls killAll().
FirstChainReturned == run >= 1 /\ ~(run = 1 /\ pc \in {"setup", "threw"})
SignalHandled == alive /\ ~alive'
C14_Shutdown ==
    /\ [](listener <=> (~windows /\ FirstChainReturned))
    /\ [](windows => (alive /\ kills.signal = 0))
    /\ []((listener /\ alive) => ENABLED Signal)
    /\ [](~alive => (processes = EmptyRegistry /\ kills.signal = 1))
    /\ [][SignalHandled =>
            /\ listener /\ ~windows
            /\ kills'.signal = 1 /\ kills'.reload = kills.reload
            /\ processes' = EmptyRegistry
            /\ \A p \in procs : Registered(processes, p) =>
                   \E q \in procs' : Handle(q) = Handle(p) /\ q.req = p.req + 1
            /\ NewProcs = {}
            /\ UNCHANGED <<events, pc, run, fed>>]_vars
    /\ [][alive]_vars

\* A signal handled in the middle of a reload, after the killAll() of that
\* reload has taken the main process.
C14_Witness ==
    /\ ~alive /\ pc = "setup" /\ phase = "reload"
    /\ \E p \in procs : p.req = 1

\* C15: no process receives more than one termination request, over any
\* sequence of killAll() calls; a killAll() that finds the registry empty
\* issues no request and leaves the registry empty.
KillAllCalled == kills' # kills
C15_KillAllIdempotent ==
    /\ [](\A p \in procs : p.req <= 1)
    /\ [][(KillAllCalled /\ processes = EmptyRegistry) =>
            /\ lastKill' = [before |-> 0, after |-> 0]
            /\ \A p \in procs, q \in procs' :
                   Handle(p) = Handle(q) => q.req = p.req
            /\ \A q \in NewProcs : q.req = 0
            /\ \A id \in DOMAIN processes' : processes'[id] \in
                   {Handle(q) : q \in NewProcs}]_vars

\* The signal's killAll() found nothing registered after the killAll() of a
\* reload had taken the main process, whose monitor has not resumed yet.
C15_Witness ==
    /\ kills.reload >= 1 /\ kills.signal = 1 /\ lastKill.before = 0
    /\ \E p \in Monitored(procs) : p.req = 1 /\ p.mon = "pending"

\* C16: when the status of an awaited command is retrieved, with or without
\* success, the next command is spawned in the same step; if that one is the
\* last it is registered and monitored, and the events and the generator's
\* position are those the return of start() gives whatever the statuses were.
Awaited == {p \in ThisRun : p.cmd = i /\ p.st = "running"}
StatusRetrieved ==
    /\ pc = "setup"
    /\ \E p \in Awaited : \E q \in procs' : Handle(q) = Handle(p) /\ Completed(q)
C16_SetupFailureIgnored ==
    [][StatusRetrieved =>
          /\ \E q \in NewProcs :
                /\ NewProcs = {q}
                /\ q.run = run /\ q.cmd = i + 1 /\ q.st = "running"
                /\ IF q.cmd = nCmds - 1
                   THEN /\ q.mon = "pending"
                        /\ Registered(processes', q)
                        /\ pc' = IF phase = "reload" \/ Truthy(watch)
                                 THEN "watch" ELSE "yield exit"
                        /\ events' = IF pc' = "yield exit"
                                     THEN Append(events, ExitEvent) ELSE events
                   ELSE /\ q.mon = "none"
                        /\ pc' = "setup"
                        /\ events' = events]_vars

\* The first chain execution has returned with its main process registered
\* although its setup command ended without success.
C16_Witness ==
    /\ run = 1 /\ nCmds = 2 /\ ChainReturned
    /\ \E p \in ThisRun : p.cmd = 0 /\ p.st = "failure"
    /\ \E q \in ThisRun : q.cmd = 1 /\ Registered(processes, q)

\* C17: with an empty chain nothing is ever spawned, registered or monitored,
\* start() returns options that request no watching, and the events are
\* [start, exit] as soon as it has returned: no batch is taken, no reload runs.
C17_EmptyChain ==
    nCmds = 0 =>
        /\ procs = {} /\ processes = EmptyRegistry
        /\ run <= 1 /\ fed = 0 /\ kills.reload = 0
        /\ pc \in {"init", "yield start", "yield exit", "done"}
        /\ events = CASE pc = "init" -> <<>>
                      [] pc = "yield start" -> <<StartEvent>>
                      [] OTHER -> <<StartEvent, ExitEvent>>
        /\ (run = 1) <=> (pc \in {"yield exit", "done"})

C17_Witness == nCmds = 0 /\ pc = "done" /\ run = 1

\* C19: chain executions never overlap: a batch is taken only while no chain
\* execution is in progress, so at most one command that is not a main one
\* is running at any time, a chain execution has at most one main process,
\* and there is one chain execution for the start and one per reload event
\* resumed.
RunningSetups == {p \in procs : p.mon = "none" /\ p.st = "running"}
C19_OneChainAtATime ==
    /\ [](Cardinality(RunningSetups) <= 1)
    /\ [](RunningSetups # {} => (pc = "setup" \/ ~alive))
    /\ [](\A p, q \in Monitored(procs) : p.run = q.run => p = q)
    /\ [](run >= 1 => run = kills.reload + 1)
    /\ [](kills.reload <= Cardinality(Reloads(events)))
    /\ [][fed' # fed => (pc = "watch" /\ RunningSetups = {})]_vars

\* The feed has delivered all its batches while a reload awaited a command.
C19_Witness ==
    /\ pc = "setup" /\ phase = "reload" /\ alive
    /\ Cardinality(RunningSetups) = 1
    /\ fed = MaxBatches

\* C20: a monitor that resumes for a process that a killAll() had taken,
\* while the registry holds another process under another pid, leaves the
\* registry as it is and classifies its own process as "was killed"; with a
\* chain of one command, the replacement has been registered by then.
C20_OwnEntryOnly ==
    /\ [][\A p \in Monitored(procs), q \in Monitored(procs') :
          (/\ Handle(p) = Handle(q) /\ p.mon = "pending" /\ q.mon # "pending"
           /\ p.req > 0
           /\ \E id \in DOMAIN processes :
                  processes[id] # Handle(p) /\ id # p.pid) =>
              /\ processes' = processes
              /\ q.mon = "was killed"]_vars
    /\ [][\A p \in Monitored(procs), q \in Monitored(procs') :
          (/\ Handle(p) = Handle(q) /\ p.mon = "pending" /\ q.mon # "pending"
           /\ p.req > 0 /\ nCmds = 1) => run > p.run]_vars

\* One-command chain: the monitor of the first main process has classified
\* it while its replacement, under another pid, stays registered.
C20_Witness ==
    /\ nCmds = 1 /\ run = 2
    /\ \E p \in Monitored(procs) : p.run = 1 /\ p.mon = "was killed"
    /\ \E q \in Monitored(procs) :
           q.run = 2 /\ q.st = "running" /\ Registered(processes, q)

\* Fair scheduling: the consumer keeps asking for the next event, every
\* command that is not the main one yields a termination status, and the
\* change feed ends.  Nothing is assumed of the main process, of its monitor
\* or of signals.
SetupCompletes ==
    /\ i < nCmds - 1
    /\ \E o \in {"success", "failure"} : SetupStatus(o)
FairSpec ==
    /\ Spec
    /\ WF_vars(Begin) /\ WF_vars(ResumeStart) /\ WF_vars(ResumeReload)
    /\ WF_vars(SetupCompletes)
    /\ WF_vars(FeedEnd)

\* C18 as stated: under fair scheduling `exit` is eventually emitted, unless
\* the retrieval of a setup command's status fails.
C18_ExitEventually == <>(ExitEmitted \/ pc = "threw")

\* C18 as amended: under fair scheduling `exit` is eventually emitted, unless
\* the retrieval of a setup command's status fails or a termination signal is
\* handled first; and as long as the awaited setup command has not ended, the
\* chain execution does not return, no batch is taken and nothing is emitted.
C18_ExitUnlessSignalled ==
    /\ <>(ExitEmitted \/ pc = "threw" \/ ~alive)
    /\ [][(pc = "setup" /\ \E p \in Awaited : p \in procs') =>
            (pc' = "setup" /\ UNCHANGED <<i, run, fed, events>>)]_vars

\* `exit` has been emitted after a reload although no main process has ended
\* or been monitored since.
C18_Witness ==
    /\ ExitEmitted /\ nCmds = 2 /\ run = 2 /\ alive
    /\ \E p \in ThisRun : p.cmd = 1 /\ p.st = "running"

====
